---- MODULE Spec2Model ----
(***************************************************************************)
(* RED metrics instrumentation of fastapi-app (app/helper/metrics.py):     *)
(* the PrometheusMetricsCollector registry, the path normalizer, the      *)
(* PrometheusMetricsMiddleware around every request, the exclude_paths    *)
(* administrative call and the /metrics exposition endpoint.              *)
(*                                                                         *)
(* The application runs on one asyncio event loop: the code between two   *)
(* awaits of a coroutine is one step.  The middleware has one suspension  *)
(* point per request, the await of call_next (line 198 for an excluded    *)
(* path, line 223 for a measured one); "await self._record_metrics(...)"  *)
(* never yields to the loop since _record_metrics holds no await.         *)
(*                                                                         *)
(* A path is a sequence of segments ("/a/b" is <<a, b>>); a segment is a  *)
(* sequence of atoms.  An atom is either a block of 36 characters in the  *)
(* canonical UUID shape (the members of UUIDs) or a piece of text that    *)
(* holds no such block and does not complete one with its neighbours.     *)
(* Durations are in milliseconds.                                         *)
(***************************************************************************)
EXTENDS Integers, Sequences, FiniteSets, TLC

VARIABLES
    settings,         \* app.config.settings: [APP_NAME, APP_ENV], sequences of characters
    service_name,     \* PrometheusMetricsMiddleware.service_name
    excluded_paths,   \* PrometheusMetricsMiddleware.excluded_paths: dict path -> bool
    request_counter,  \* http_requests_total: label tuple -> value
    request_latency,  \* http_request_duration_seconds: label tuple -> [sum, buckets]
    error_counter,    \* http_errors_total: label tuple -> value
    active_requests,  \* http_requests_active: label tuple -> value
    now,              \* time.perf_counter()
    pc,               \* per request: position of its dispatch coroutine
    request,          \* per request: [method, path]
    endpoint,         \* per request: local variable endpoint of dispatch
    start_time,       \* per request: local variable start_time
    handler_out,      \* per request: outcome of call_next(request), once it has one
    result            \* per request: what dispatch handed to its caller

vars == <<settings, service_name, excluded_paths, request_counter, request_latency,
          error_counter, active_requests, now, pc, request, endpoint, start_time,
          handler_out, result>>

registry == <<request_counter, request_latency, error_counter, active_requests>>

-----------------------------------------------------------------------------
(* Bounds and input sets *)

NumTasks == 2

Tasks == 1..NumTasks

UUIDs == {"U1", "U2"}

\* "/metrics"
MetricsPath == << <<"metrics">> >>

\* "/api/v1/products"
ProductsPath == << <<"api">>, <<"v1">>, <<"products">> >>

\* "/api/v1/products/<u>"
ProductPath(u) == ProductsPath \o << <<u>> >>

\* the requests clients send: the scrape, create_product and get_product
Requests ==
    { [method |-> "GET", path |-> MetricsPath],
      [method |-> "POST", path |-> ProductsPath],
      [method |-> "GET", path |-> ProductPath("U1")],
      [method |-> "GET", path |-> ProductPath("U2")] }

\* status codes of the responses of the business routes
Statuses == {200, 400}

\* unhandled exceptions of the business routes
Faults == {"ValueError"}

\* readings of time.perf_counter(), in milliseconds
ClockValues == {0, 70000}

\* argument lists of the exclude_paths calls of an administrator
ExcludeLists == { <<ProductsPath, ProductPath("U1")>> }

\* "/api/v1/products/:id", the label of the routes with a product id
ProductTemplate == ProductsPath \o << <<":id">> >>

\* argument lists of exclude_paths calls that name a normalized template
TemplateExcludeLists == { <<ProductTemplate>> }

\* the longest path, in segments, that is given to a normalizer on its own
MaxPathLen == 2

\* segments of request paths: plain text, a version tag with a digit, a UUID
\* block alone, with text after it and with text before it, the placeholder, and
\* an identifier that is a number
Segments ==
    { <<"v1">>, <<"products">>, <<"process">>, <<"U1">>, <<"U2">>, <<"U1", "x">>,
      <<"x", "U1">>, <<":id">>, <<"123">> }

\* the blocks of characters that hold at least one digit (a uuid4 always does)
DigitAtoms == UUIDs \cup {"v1", "123"}

\* the sequences of 1..n elements of S
SeqsUpTo(S, n) == UNION {[1..m -> S] : m \in 1..n}

\* request.url.path: up to MaxPathLen segments, at the root or under the prefix
\* of the products router
Paths ==
    LET G == SeqsUpTo(Segments, MaxPathLen)
    IN  G \cup {ProductsPath \o p : p \in G} \cup {MetricsPath, ProductsPath}

\* the path parameter of a route
PathParam == <<"{product_id}">>

\* the routes of the application that the paths above can match
RouteTemplates ==
    { MetricsPath, ProductsPath, ProductsPath \o <<PathParam>>,
      ProductsPath \o <<PathParam, <<"process">> >> }

\* values the configuration strings are changed to while the process runs
SettingsUpdates == { [APP_NAME |-> <<"A", " ", "M">>, APP_ENV |-> <<"D">>] }

SettingsChoices == { [APP_NAME |-> <<"M", "y", " ", "A">>, APP_ENV |-> <<"D", "e", "v">>] }

-----------------------------------------------------------------------------
(* app.config settings and the service label *)

Uppers == <<"A", "D", "M">>

Lowers == <<"a", "d", "m">>

\* str.lower() on one character
LowerChar(c) ==
    IF \E i \in 1..Len(Uppers) : Uppers[i] = c
    THEN Lowers[CHOOSE i \in 1..Len(Uppers) : Uppers[i] = c]
    ELSE c

\* str.lower()
Lower(s) == [i \in 1..Len(s) |-> LowerChar(s[i])]

\* str.replace(" ", "-")
ReplaceSpaces(s) == [i \in 1..Len(s) |-> IF s[i] = " " THEN "-" ELSE s[i]]

\* f"{app_name}--{settings.APP_ENV.lower()}"
_format_service_name(cfg) ==
    LET app_name == ReplaceSpaces(Lower(cfg.APP_NAME))
    IN  app_name \o <<"-", "-">> \o Lower(cfg.APP_ENV)

-----------------------------------------------------------------------------
(* Path normalizer *)

\* re.sub(pattern, "/:id", path) within one segment: the pattern is "/" followed
\* by 36 characters of UUID shape, so it matches only a block that opens a
\* segment, and it replaces that block alone: what follows it in the segment stays.
NormalizeSegment(seg) ==
    IF Len(seg) >= 1 /\ seg[1] \in UUIDs
    THEN <<":id">> \o Tail(seg)
    ELSE seg

\* re.sub with count=1: only the first match is replaced
_normalize_path_first_only(path) ==
    LET hits == {i \in 1..Len(path) : NormalizeSegment(path[i]) # path[i]}
    IN  [i \in 1..Len(path) |->
            IF i \in hits /\ \A j \in hits : i <= j
            THEN NormalizeSegment(path[i]) ELSE path[i]]

\* re.sub that replaces only segments that are a number, as the docstring says
_normalize_path_numeric(path) ==
    [i \in 1..Len(path) |-> IF path[i] = <<"123">> THEN <<":id">> ELSE path[i]]

_normalize_path(path) == [i \in 1..Len(path) |-> NormalizeSegment(path[i])]

\* metrics_scratch.py: re.sub(r"/[^/]*\d[^/]*", "/:id", path) replaces every
\* segment that holds a digit, whole
REDMetricsMiddleware_normalize_path(path) ==
    [i \in 1..Len(path) |->
        IF \E j \in 1..Len(path[i]) : path[i][j] \in DigitAtoms
        THEN <<":id">> ELSE path[i]]

\* the two normalizers of the repository by the file that defines them
Normalizers == {"metrics", "metrics_scratch"}

ApplyNormalizer(which, path) ==
    IF which = "metrics" THEN _normalize_path(path)
    ELSE REDMetricsMiddleware_normalize_path(path)

-----------------------------------------------------------------------------
(* Registry: the four instruments of PrometheusMetricsCollector *)

\* buckets=(0.001, ..., 60.0, INF), in milliseconds; the last one is INF
Buckets == <<1, 5, 10, 25, 50, 75, 100, 250, 500, 750, 1000, 2500, 5000, 7500,
             10000, 15000, 20000, 30000, 45000, 60000>>

NumBuckets == Len(Buckets) + 1

\* labelnames=["method", "status_code", "endpoint", "service"]
Labels4(method, status_code, ep, service) ==
    [method |-> method, status_code |-> status_code, endpoint |-> ep, service |-> service]

\* labelnames=["method", "endpoint", "service"]
Labels3(method, ep, service) ==
    [method |-> method, endpoint |-> ep, service |-> service]

ZeroHistogram == [sum |-> 0, buckets |-> [i \in 1..NumBuckets |-> 0]]

\* metric.labels(...): the series of a label tuple, made on first use
Child(metric, k, zero) == IF k \in DOMAIN metric THEN metric ELSE metric @@ (k :> zero)

\* the value of a series, 0 when it was never made
Value(metric, k) == IF k \in DOMAIN metric THEN metric[k] ELSE 0

\* Inc with a lost update: the value written is one more than a stale read of a
\* fresh series instead of one more than the current value
Inc_lost_update(metric, k) == [Child(metric, k, 0) EXCEPT ![k] = 1]

\* metric.labels(...).inc()
Inc(metric, k) == [Child(metric, k, 0) EXCEPT ![k] = @ + 1]

\* metric.labels(...).dec()
Dec(metric, k) == [Child(metric, k, 0) EXCEPT ![k] = @ - 1]

\* the bucket an observation falls in: the first upper bound >= amount
BucketOf(amount) ==
    IF \E i \in 1..Len(Buckets) : amount <= Buckets[i]
    THEN CHOOSE i \in 1..Len(Buckets) :
            amount <= Buckets[i] /\ \A j \in 1..(i - 1) : amount > Buckets[j]
    ELSE NumBuckets

\* observe that increments every bucket whose upper bound holds the amount
Observe_cumulative(metric, k, amount) ==
    [Child(metric, k, ZeroHistogram) EXCEPT
        ![k] = [sum |-> @.sum + amount,
                buckets |-> [i \in 1..NumBuckets |->
                                IF i >= BucketOf(amount) THEN @.buckets[i] + 1
                                ELSE @.buckets[i]]]]

\* metric.labels(...).observe(amount)
Observe(metric, k, amount) ==
    [Child(metric, k, ZeroHistogram) EXCEPT
        ![k] = [sum |-> @.sum + amount,
                buckets |-> [@.buckets EXCEPT ![BucketOf(amount)] = @ + 1]]]

RECURSIVE SumTo(_, _)
SumTo(f, n) == IF n = 0 THEN 0 ELSE f[n] + SumTo(f, n - 1)

\* the exposition of one histogram series: cumulative buckets, count and sum
Exposed(h) ==
    [buckets |-> [i \in 1..NumBuckets |-> SumTo(h.buckets, i)],
     count |-> SumTo(h.buckets, NumBuckets),
     sum |-> h.sum]

\* generate_latest(): every series of the four instruments
generate_latest ==
    [http_requests_total |-> request_counter,
     http_request_duration_seconds |->
         [k \in DOMAIN request_latency |-> Exposed(request_latency[k])],
     http_errors_total |-> error_counter,
     http_requests_active |-> active_requests]

-----------------------------------------------------------------------------
(* Requests and the downstream handler chain *)

NoRequest == [method |-> "", path |-> <<>>]

NotCalled == [kind |-> "not_called"]

Pending == [kind |-> "pending"]

Cancelled == [kind |-> "cancelled"]

NoResult == [kind |-> "none"]

ResponseOf(status_code, body) ==
    [kind |-> "response", status_code |-> status_code, body |-> body]

FaultOf(f) == [kind |-> "fault", fault |-> f]

\* an exception raised by a metrics operation itself
MetricsFault == FaultOf("MetricsError")

\* the places of the middleware where a metrics operation is called
MetricsOps == {"active_requests.inc", "request_counter.inc", "request_latency.observe",
               "error_counter.inc", "active_requests.dec"}

EmptyDict == [k \in {} |-> 0]

\* dict.get(key, default)
Get(d, key, default) == IF key \in DOMAIN d THEN d[key] ELSE default

\* the instruments as one value: the attributes of PrometheusMetricsCollector
Collector ==
    [request_counter |-> request_counter, request_latency |-> request_latency,
     error_counter |-> error_counter, active_requests |-> active_requests]

\* the instruments take the values of collector value M in the next state
Store(M) ==
    /\ request_counter' = M.request_counter
    /\ request_latency' = M.request_latency
    /\ error_counter' = M.error_counter
    /\ active_requests' = M.active_requests

\* excluded_paths of init_app without the entry of the exposition endpoint
DefaultExcluded_no_metrics ==
    [p \in { << <<"health">> >>, << <<"docs">> >>,
             << <<"openapi.json">> >>, << <<"favicon.ico">> >> } |-> TRUE]

\* excluded_paths of init_app
DefaultExcluded ==
    [p \in { << <<"metrics">> >>, << <<"health">> >>, << <<"docs">> >>,
             << <<"openapi.json">> >>, << <<"favicon.ico">> >> } |-> TRUE]

-----------------------------------------------------------------------------
(* Instrumentation middleware *)

\* _record_metrics with the request counter incremented inside the
\* "if status_code >= 400" block
_record_metrics_errors_only(M, method, ep, response, start, t, service, failing) ==
    LET k == Labels4(method, response.status_code, ep, service)
        M1 == [M EXCEPT !.request_latency = Observe(@, k, t - start)]
        M2 == [M1 EXCEPT !.request_counter = Inc(@, k), !.error_counter = Inc(@, k)]
    IN  [metrics |-> IF response.status_code >= 400 THEN M2 ELSE M1, raised |-> FALSE]

\* _record_metrics with "status_code > 400" for "status_code >= 400"
_record_metrics_gt400(M, method, ep, response, start, t, service, failing) ==
    LET k == Labels4(method, response.status_code, ep, service)
        M1 == [M EXCEPT !.request_counter = Inc(@, k)]
        M2 == [M1 EXCEPT !.request_latency = Observe(@, k, t - start)]
        M3 == [M2 EXCEPT !.error_counter = Inc(@, k)]
    IN  [metrics |-> IF response.status_code > 400 THEN M3 ELSE M2, raised |-> FALSE]

\* _record_metrics without the "if status_code >= 400" test: every response is
\* counted as an error
_record_metrics_errors_all(M, method, ep, response, start, t, service, failing) ==
    LET k == Labels4(method, response.status_code, ep, service)
        M1 == [M EXCEPT !.request_counter = Inc(@, k)]
        M2 == [M1 EXCEPT !.request_latency = Observe(@, k, t - start)]
        M3 == [M2 EXCEPT !.error_counter = Inc(@, k)]
    IN  [metrics |-> M3, raised |-> FALSE]

\* _record_metrics(method, endpoint, response, start_time) on collector value M at
\* time t; failing names the metrics operation that raises in this call, if any.
\* Yields the collector afterwards and whether the call raised.
_record_metrics(M, method, ep, response, start, t, service, failing) ==
    LET duration == t - start
        status_code == response.status_code
        k == Labels4(method, status_code, ep, service)
        M1 == [M EXCEPT !.request_counter = Inc(@, k)]
        M2 == [M1 EXCEPT !.request_latency = Observe(@, k, duration)]
        M3 == [M2 EXCEPT !.error_counter = Inc(@, k)]
    IN  IF failing = "request_counter.inc" THEN [metrics |-> M, raised |-> TRUE]
        ELSE IF failing = "request_latency.observe" THEN [metrics |-> M1, raised |-> TRUE]
        ELSE IF status_code >= 400
        THEN IF failing = "error_counter.inc"
             THEN [metrics |-> M2, raised |-> TRUE]
             ELSE [metrics |-> M3, raised |-> FALSE]
        ELSE [metrics |-> M2, raised |-> FALSE]

\* _handle_metrics_collection without try/finally: the gauge is decremented
\* after _record_metrics returned, and not when the await raised
_handle_metrics_collection_no_finally(M, method, ep, out, start, t, service, failing) ==
    LET rec == _record_metrics(M, method, ep, out, start, t, service, failing)
        g == Labels3(method, ep, service)
    IN  IF out.kind = "response"
        THEN [metrics |-> [rec.metrics EXCEPT !.active_requests = Dec(@, g)], leaves |-> out]
        ELSE [metrics |-> M, leaves |-> out]

\* _handle_metrics_collection with the decrement both at the end of the try body
\* and in the finally block
_handle_metrics_collection_double_dec(M, method, ep, out, start, t, service, failing) ==
    LET g == Labels3(method, ep, service)
        rec == IF out.kind = "response"
               THEN LET m == _record_metrics(M, method, ep, out, start, t, service, failing).metrics
                    IN  [m EXCEPT !.active_requests = Dec(@, g)]
               ELSE M
    IN  [metrics |-> [rec EXCEPT !.active_requests = Dec(@, g)], leaves |-> out]

\* _handle_metrics_collection with "except Exception: return Response(status_code=500)"
\* in front of the finally block
_handle_metrics_collection_swallow(M, method, ep, out, start, t, service, failing) ==
    LET rec == IF out.kind = "response"
               THEN _record_metrics(M, method, ep, out, start, t, service, failing).metrics
               ELSE M
        g == Labels3(method, ep, service)
    IN  [metrics |-> [rec EXCEPT !.active_requests = Dec(@, g)],
         leaves |-> IF out.kind = "fault" THEN ResponseOf(500, "payload") ELSE out]

\* _handle_metrics_collection with the decrement in "except Exception: ...; raise"
\* and after the try instead of in a finally block: CancelledError is no Exception
_handle_metrics_collection_except_exception(M, method, ep, out, start, t, service, failing) ==
    LET rec == IF out.kind = "response"
               THEN _record_metrics(M, method, ep, out, start, t, service, failing).metrics
               ELSE M
        g == Labels3(method, ep, service)
    IN  [metrics |-> IF out.kind = "cancelled" THEN rec
                     ELSE [rec EXCEPT !.active_requests = Dec(@, g)],
         leaves |-> out]

\* _handle_metrics_collection that answers an error response of the handler with
\* a response of its own making
_handle_metrics_collection_rewrites_errors(M, method, ep, out, start, t, service, failing) ==
    LET rec == IF out.kind = "response"
               THEN _record_metrics(M, method, ep, out, start, t, service, failing).metrics
               ELSE M
        g == Labels3(method, ep, service)
    IN  [metrics |-> [rec EXCEPT !.active_requests = Dec(@, g)],
         leaves |-> IF out.kind = "response" /\ out.status_code >= 400
                    THEN ResponseOf(out.status_code, "error")
                    ELSE out]

\* _handle_metrics_collection that removes the in-flight series of its labels
\* once the gauge is back at zero (active_requests.remove(...))
_handle_metrics_collection_evicts_idle(M, method, ep, out, start, t, service, failing) ==
    LET rec == IF out.kind = "response"
               THEN _record_metrics(M, method, ep, out, start, t, service, failing).metrics
               ELSE M
        g == Labels3(method, ep, service)
        gauge == Dec(rec.active_requests, g)
    IN  [metrics |-> [rec EXCEPT !.active_requests =
                         IF gauge[g] = 0
                         THEN [k \in DOMAIN gauge \ {g} |-> gauge[k]]
                         ELSE gauge],
         leaves |-> out]

\* _handle_metrics_collection from the point where await call_next(request) is
\* left with outcome out (a response, a fault of the handler, a cancellation):
\* the try body, then the finally block.  Yields the collector afterwards and
\* what leaves the coroutine.
_handle_metrics_collection(M, method, ep, out, start, t, service, failing) ==
    LET rec == IF out.kind = "response"
               THEN _record_metrics(M, method, ep, out, start, t, service, failing)
               ELSE [metrics |-> M, raised |-> FALSE]
        g == Labels3(method, ep, service)
    IN  IF failing = "active_requests.dec"
        THEN [metrics |-> rec.metrics, leaves |-> MetricsFault]
        ELSE [metrics |-> [rec.metrics EXCEPT !.active_requests = Dec(@, g)],
              leaves |-> IF rec.raised THEN MetricsFault ELSE out]

\* the check of dispatch made on a copy of excluded_paths taken at construction
IsExcluded_stale(excluded, path) == Get(DefaultExcluded, _normalize_path(path), FALSE)

\* the check of dispatch written as a comparison with the metrics path alone
IsExcluded_metrics_only(excluded, path) == _normalize_path(path) = MetricsPath

\* the check of dispatch made with the raw path: excluded_paths.get(request.url.path)
IsExcluded_raw(excluded, path) == Get(excluded, path, FALSE)

\* the check of dispatch: self.excluded_paths.get(endpoint, False)
IsExcluded(excluded, path) == Get(excluded, _normalize_path(path), FALSE)

\* dispatch that formats the service label from the settings on every request
dispatch_label_from_settings(r, method, path, failing) ==
    LET ep == _normalize_path(path)
        g == Labels3(method, ep, _format_service_name(settings))
    IN  /\ pc[r] = "new"
        /\ \A q \in Tasks : q < r => pc[q] # "new"
        /\ request' = [request EXCEPT ![r] = [method |-> method, path |-> path]]
        /\ endpoint' = [endpoint EXCEPT ![r] = ep]
        /\ IF IsExcluded(excluded_paths, path)
           THEN /\ pc' = [pc EXCEPT ![r] = "call_next_excluded"]
                /\ handler_out' = [handler_out EXCEPT ![r] = Pending]
                /\ UNCHANGED <<registry, start_time, result>>
           ELSE /\ pc' = [pc EXCEPT ![r] = "call_next"]
                /\ active_requests' = Inc(active_requests, g)
                /\ start_time' = [start_time EXCEPT ![r] = now]
                /\ handler_out' = [handler_out EXCEPT ![r] = Pending]
                /\ UNCHANGED <<request_counter, request_latency, error_counter, result>>
        /\ UNCHANGED <<settings, service_name, excluded_paths, now>>

\* dispatch up to its await of call_next: normalisation, the exclusion check and,
\* for a measured path, the gauge increment and the start time.  Requests are
\* interchangeable, so they are numbered in the order they arrive.
dispatch(r, method, path, failing) ==
    LET ep == _normalize_path(path)
        g == Labels3(method, ep, service_name)
    IN  /\ pc[r] = "new"
        /\ \A q \in Tasks : q < r => pc[q] # "new"
        /\ request' = [request EXCEPT ![r] = [method |-> method, path |-> path]]
        /\ endpoint' = [endpoint EXCEPT ![r] = ep]
        /\ IF IsExcluded(excluded_paths, path)
           THEN /\ pc' = [pc EXCEPT ![r] = "call_next_excluded"]
                /\ handler_out' = [handler_out EXCEPT ![r] = Pending]
                /\ UNCHANGED <<registry, start_time, result>>
           ELSE IF failing = "active_requests.inc"
           THEN /\ pc' = [pc EXCEPT ![r] = "done"]
                /\ result' = [result EXCEPT ![r] = MetricsFault]
                /\ UNCHANGED <<registry, start_time, handler_out>>
           ELSE /\ pc' = [pc EXCEPT ![r] = "call_next"]
                /\ active_requests' = Inc(active_requests, g)
                /\ start_time' = [start_time EXCEPT ![r] = now]
                /\ handler_out' = [handler_out EXCEPT ![r] = Pending]
                /\ UNCHANGED <<request_counter, request_latency, error_counter, result>>
        /\ UNCHANGED <<settings, service_name, excluded_paths, now>>

\* dispatch with a suspension point inside _record_metrics, after
\* request_counter.inc: the step of a measured, answered request ends there
resume_suspends_in_record_metrics(r, out, failing) ==
    /\ pc[r] \in {"call_next_excluded", "call_next"}
    /\ IF pc[r] = "call_next_excluded"
       THEN /\ pc' = [pc EXCEPT ![r] = "done_excluded"]
            /\ result' = [result EXCEPT ![r] = out]
            /\ start_time' = [start_time EXCEPT ![r] = 0]
            /\ UNCHANGED registry
       ELSE IF out.kind = "response"
       THEN /\ request_counter' =
                   Inc(request_counter, Labels4(request[r].method, out.status_code,
                                                endpoint[r], service_name))
            /\ UNCHANGED <<request_latency, error_counter, active_requests, pc,
                           result, start_time>>
       ELSE LET after == _handle_metrics_collection(Collector, request[r].method,
                             endpoint[r], out, start_time[r], now, service_name, failing)
            IN  /\ pc' = [pc EXCEPT ![r] = "done"]
                /\ Store(after.metrics)
                /\ result' = [result EXCEPT ![r] = after.leaves]
                /\ start_time' = [start_time EXCEPT ![r] = 0]
    /\ UNCHANGED <<settings, service_name, excluded_paths, now, request, endpoint>>

\* dispatch that looks the path up again when call_next is left and skips the
\* bookkeeping of a request whose path is exempt by then
resume_rechecks_exemption(r, out, failing) ==
    /\ pc[r] \in {"call_next_excluded", "call_next"}
    /\ IF pc[r] = "call_next_excluded" \/ IsExcluded(excluded_paths, request[r].path)
       THEN /\ pc' = [pc EXCEPT ![r] = "done_excluded"]
            /\ result' = [result EXCEPT ![r] = out]
            /\ UNCHANGED registry
       ELSE LET after == _handle_metrics_collection(Collector, request[r].method,
                             endpoint[r], out, start_time[r], now, service_name, failing)
            IN  /\ pc' = [pc EXCEPT ![r] = "done"]
                /\ Store(after.metrics)
                /\ result' = [result EXCEPT ![r] = after.leaves]
    /\ start_time' = [start_time EXCEPT ![r] = 0]
    /\ UNCHANGED <<settings, service_name, excluded_paths, now, request, endpoint>>

\* dispatch from the point where its await of call_next(request) is left with
\* outcome out: line 198 for an excluded path, lines 223-235 for a measured one
resume(r, out, failing) ==
    /\ pc[r] \in {"call_next_excluded", "call_next"}
    /\ IF pc[r] = "call_next_excluded"
       THEN /\ pc' = [pc EXCEPT ![r] = "done_excluded"]
            /\ result' = [result EXCEPT ![r] = out]
            /\ UNCHANGED registry
       ELSE LET after == _handle_metrics_collection(Collector, request[r].method,
                             endpoint[r], out, start_time[r], now, service_name, failing)
            IN  /\ pc' = [pc EXCEPT ![r] = "done"]
                /\ Store(after.metrics)
                /\ result' = [result EXCEPT ![r] = after.leaves]
    /\ start_time' = [start_time EXCEPT ![r] = 0]
    /\ UNCHANGED <<settings, service_name, excluded_paths, now, request, endpoint>>

\* what the route of a request may answer: expose_metrics_endpoint for
\* GET /metrics (main.py), any of Statuses for a business route
RouteResponses(req) ==
    IF req = [method |-> "GET", path |-> MetricsPath]
    THEN {ResponseOf(200, generate_latest)}
    ELSE {ResponseOf(s, "payload") : s \in Statuses}

\* call_next(request) returns a response and dispatch goes on with it
HandlerReturn(r, response, failing) ==
    /\ handler_out[r] = Pending
    /\ response \in RouteResponses(request[r])
    /\ handler_out' = [handler_out EXCEPT ![r] = response]
    /\ resume(r, response, failing)

\* call_next(request) raises an unhandled fault of a business handler, which
\* reaches dispatch at its await
HandlerRaise(r, f, failing) ==
    /\ handler_out[r] = Pending
    /\ request[r].path # MetricsPath
    /\ handler_out' = [handler_out EXCEPT ![r] = FaultOf(f)]
    /\ resume(r, FaultOf(f), failing)

\* the framework cancels the request while dispatch awaits call_next
\* (task.cancel()): the await is to be left with CancelledError
Cancel(r) ==
    /\ pc[r] \in {"call_next_excluded", "call_next"}
    /\ handler_out[r] = Pending
    /\ handler_out' = [handler_out EXCEPT ![r] = Cancelled]
    /\ UNCHANGED <<settings, service_name, excluded_paths, registry, now, pc, request,
                   endpoint, start_time, result>>

\* the event loop throws CancelledError into dispatch at its await
ThrowCancelled(r, failing) ==
    /\ handler_out[r] = Cancelled
    /\ UNCHANGED handler_out
    /\ resume(r, Cancelled, failing)

\* exclude_paths written as an assignment of a new dict that holds the listed paths
AddAll_replace(excluded, paths) == [p \in {paths[i] : i \in 1..Len(paths)} |-> TRUE]

RECURSIVE AddAll(_, _)
\* for path in paths: self.excluded_paths[path] = True
AddAll(excluded, paths) ==
    IF paths = <<>> THEN excluded
    ELSE AddAll([p \in DOMAIN excluded \cup {Head(paths)} |->
                    IF p = Head(paths) THEN TRUE ELSE excluded[p]], Tail(paths))

exclude_paths(paths) ==
    /\ excluded_paths' = AddAll(excluded_paths, paths)
    /\ excluded_paths' # excluded_paths
    /\ UNCHANGED <<settings, service_name, registry, now, pc, request, endpoint,
                   start_time, handler_out, result>>

\* time.perf_counter() advances while some measured request is being handled
\* (no other reading of the clock is ever compared with a start time)
Tick(t) ==
    /\ t > now
    /\ \E r \in Tasks : pc[r] = "call_next" /\ handler_out[r] = Pending
    /\ now' = t
    /\ UNCHANGED <<settings, service_name, excluded_paths, registry, pc, request,
                   endpoint, start_time, handler_out, result>>

\* the configuration strings are assigned new values (settings.APP_NAME = ...,
\* settings.APP_ENV = ...); the middleware holds the label it built
Reconfigure(cfg) ==
    /\ settings' = cfg
    /\ settings' # settings
    /\ UNCHANGED <<service_name, excluded_paths, registry, now, pc, request, endpoint,
                   start_time, handler_out, result>>

\* the position of a caller that applied a normalizer once, and twice
Once(which) == IF which = "metrics" THEN "normalized" ELSE "normalized_scratch"

Twice(which) == IF which = "metrics" THEN "renormalized" ELSE "renormalized_scratch"

\* endpoint = self._normalize_path(path) on its own, for either normalizer
Normalize(r, which, path) ==
    /\ pc[r] = "new"
    /\ request' = [request EXCEPT ![r] = [method |-> "GET", path |-> path]]
    /\ endpoint' = [endpoint EXCEPT ![r] = ApplyNormalizer(which, path)]
    /\ pc' = [pc EXCEPT ![r] = Once(which)]
    /\ UNCHANGED <<settings, service_name, excluded_paths, registry, now, start_time,
                   handler_out, result>>

\* the normalizer applied to its own output
Renormalize(r, which) ==
    /\ pc[r] = Once(which)
    /\ endpoint' = [endpoint EXCEPT ![r] = ApplyNormalizer(which, endpoint[r])]
    /\ pc' = [pc EXCEPT ![r] = Twice(which)]
    /\ UNCHANGED <<settings, service_name, excluded_paths, registry, now, request,
                   start_time, handler_out, result>>

-----------------------------------------------------------------------------
(* Specifications *)

Init ==
    /\ settings \in SettingsChoices
    /\ service_name = _format_service_name(settings)
    /\ excluded_paths = DefaultExcluded
    /\ request_counter = EmptyDict
    /\ request_latency = EmptyDict
    /\ error_counter = EmptyDict
    /\ active_requests = EmptyDict
    /\ now = 0
    /\ pc = [r \in Tasks |-> "new"]
    /\ request = [r \in Tasks |-> NoRequest]
    /\ endpoint = [r \in Tasks |-> <<>>]
    /\ start_time = [r \in Tasks |-> 0]
    /\ handler_out = [r \in Tasks |-> NotCalled]
    /\ result = [r \in Tasks |-> NoResult]

Next ==
    \/ \E r \in Tasks, req \in Requests : dispatch(r, req.method, req.path, "none")
    \/ \E r \in Tasks : \E response \in RouteResponses(request[r]) :
           HandlerReturn(r, response, "none")
    \/ \E r \in Tasks, f \in Faults : HandlerRaise(r, f, "none")
    \/ \E r \in Tasks : Cancel(r)
    \/ \E r \in Tasks : ThrowCancelled(r, "none")
    \/ \E paths \in ExcludeLists : exclude_paths(paths)
    \/ \E t \in ClockValues : Tick(t)

Spec == Init /\ [][Next]_vars

\* The event loop runs a task it has cancelled: CancelledError is thrown into
\* dispatch at its await in the loop's next iteration.
FairSpec == Spec /\ \A r \in Tasks : WF_vars(ThrowCancelled(r, "none"))

\* The program with metrics operations that may raise: each step of the
\* middleware may hit one failing operation.
NextFailing ==
    \/ Next
    \/ \E r \in Tasks, req \in Requests :
           dispatch(r, req.method, req.path, "active_requests.inc")
    \/ \E r \in Tasks, op \in MetricsOps : \E response \in RouteResponses(request[r]) :
           HandlerReturn(r, response, op)
    \/ \E r \in Tasks, f \in Faults, op \in MetricsOps : HandlerRaise(r, f, op)
    \/ \E r \in Tasks, op \in MetricsOps : ThrowCancelled(r, op)

SpecFailing == Init /\ [][NextFailing]_vars

\* The application while the configuration strings are changed under it.
NextReconfigure ==
    \/ Next
    \/ \E cfg \in SettingsUpdates : Reconfigure(cfg)

SpecReconfigure == Init /\ [][NextReconfigure]_vars

\* The application with an administrator who also exempts a normalized template.
NextExemptTemplate ==
    \/ Next
    \/ \E paths \in TemplateExcludeLists : exclude_paths(paths)

SpecExemptTemplate == Init /\ [][NextExemptTemplate]_vars

\* The normalizers as pure functions: one caller gives any path to either
\* normalizer and gives the output to it again.
NextNormalizer ==
    \/ \E which \in Normalizers, path \in Paths : Normalize(1, which, path)
    \/ \E which \in Normalizers : Renormalize(1, which)

SpecNormalizer == Init /\ [][NextNormalizer]_vars

\* The application with one request to any path: the middleware runs before
\* routing, so it sees every path a client sends.
NextAnyPath ==
    \/ \E path \in Paths : dispatch(1, "GET", path, "none")
    \/ \E response \in RouteResponses(request[1]) : HandlerReturn(1, response, "none")

SpecAnyPath == Init /\ [][NextAnyPath]_vars

-----------------------------------------------------------------------------
(* Vocabulary of the properties *)

\* the in-flight series of request r
GaugeKey(r) == Labels3(request[r].method, endpoint[r], service_name)

\* the request_count / request_duration / error_count series of request r
\* answered with status_code
SeriesKey(r, status_code) ==
    Labels4(request[r].method, status_code, endpoint[r], service_name)

\* request r is suspended in call_next on the measured branch
InFlight(r) == pc[r] = "call_next"

\* this step admits request r (dispatch runs up to its await)
Admits(r) == pc[r] = "new" /\ pc'[r] # "new"

\* this step ends measured request r (dispatch leaves _handle_metrics_collection)
EndsMeasured(r) == pc[r] = "call_next" /\ pc'[r] = "done"

\* this step ends excluded request r
EndsExcluded(r) == pc[r] = "call_next_excluded" /\ pc'[r] = "done_excluded"

\* this step is a step of request r
Stepped(r) == pc'[r] # pc[r] \/ handler_out'[r] # handler_out[r]

\* no request is in progress
Quiescent == \A r \in Tasks : pc[r] \in {"new", "done", "done_excluded"}

\* new is old with series k one higher (made at 0 if it was missing) and every
\* other series as it was
BumpedBy(old, new, k, delta) ==
    /\ DOMAIN new = DOMAIN old \cup {k}
    /\ new[k] = Value(old, k) + delta
    /\ \A j \in DOMAIN old \ {k} : new[j] = old[j]

RECURSIVE SumOver(_, _)
SumOver(f, S) ==
    IF S = {} THEN 0
    ELSE LET k == CHOOSE x \in S : TRUE IN f[k] + SumOver(f, S \ {k})

\* the sum of the series of a counter or gauge that carry endpoint label e
EndpointTotal(metric, e) == SumOver(metric, {k \in DOMAIN metric : k.endpoint = e})

\* the number of observations of one histogram series
Observations(h) == SumTo(h.buckets, NumBuckets)

-----------------------------------------------------------------------------
(* C1 *)

C1_GaugeCountsInFlight ==
    /\ \A r \in Tasks : InFlight(r) => GaugeKey(r) \in DOMAIN active_requests
    /\ \A k \in DOMAIN active_requests :
          active_requests[k] = Cardinality({r \in Tasks : InFlight(r) /\ GaugeKey(r) = k})

C1_PairedStep ==
    /\ \A r \in Tasks :
          /\ pc'[r] # pc[r] =>
                <<pc[r], pc'[r]>> \in { <<"new", "call_next">>, <<"new", "call_next_excluded">>,
                                        <<"call_next", "done">>,
                                        <<"call_next_excluded", "done_excluded">> }
          /\ (Admits(r) /\ pc'[r] = "call_next") =>
                BumpedBy(active_requests, active_requests',
                         Labels3(request'[r].method, endpoint'[r], service_name), 1)
          /\ EndsMeasured(r) =>
                /\ BumpedBy(active_requests, active_requests', GaugeKey(r), -1)
                /\ active_requests'[GaugeKey(r)] =
                      Cardinality({q \in Tasks \ {r} : InFlight(q) /\ GaugeKey(q) = GaugeKey(r)})
    /\ (\A r \in Tasks : ~(Admits(r) /\ pc'[r] = "call_next") /\ ~EndsMeasured(r)) =>
          active_requests' = active_requests

\* C1: for every request to a non-exempt path the in-flight gauge of its
\* (method, endpoint, service) tuple is incremented once, when the request enters
\* the handler, and decremented once, when it leaves it, whether the handler
\* returned a response, raised or was cancelled; no other step changes the gauge;
\* so every in-flight series counts the requests currently in the handler, is back
\* at its earlier value when the request is over, and is 0 when none is in progress.
C1_InFlightPaired == [](C1_GaugeCountsInFlight) /\ [][C1_PairedStep]_vars

\* a request that ended with a fault and one that ended with a response, both
\* measured on the same series, with nothing in progress and that series back at 0
C1_Witness ==
    \E r1, r2 \in Tasks :
        /\ pc[r1] = "done" /\ result[r1].kind = "fault"
        /\ pc[r2] = "done" /\ result[r2].kind = "response"
        /\ GaugeKey(r1) = GaugeKey(r2)
        /\ Quiescent
        /\ GaugeKey(r1) \in DOMAIN active_requests /\ active_requests[GaugeKey(r1)] = 0

-----------------------------------------------------------------------------
(* C2 *)

-----------------------------------------------------------------------------
(* C3 *)

\* C3: when a measured request completes with a response of status_code >= 400,
\* error_count gains exactly 1 at the tuple request_count is incremented at, and
\* no other error_count series changes; with status_code < 400 no error_count
\* series changes; admission and cancellation requests leave error_count alone.
C3_ErrorCounted ==
    [][\A r \in Tasks :
          /\ (EndsMeasured(r) /\ handler_out'[r].kind = "response") =>
                LET k == SeriesKey(r, handler_out'[r].status_code)
                IN  /\ BumpedBy(request_counter, request_counter', k, 1)
                    /\ IF handler_out'[r].status_code >= 400
                       THEN BumpedBy(error_counter, error_counter', k, 1)
                       ELSE error_counter' = error_counter
          /\ (Stepped(r) /\ ~EndsMeasured(r)) => error_counter' = error_counter]_vars

\* a measured request answered 400, counted once in error_count, and a measured
\* request answered 200 of which error_count holds no series
C3_Witness ==
    \E r1, r2 \in Tasks :
        /\ pc[r1] = "done" /\ result[r1] = ResponseOf(400, "payload")
        /\ SeriesKey(r1, 400) \in DOMAIN error_counter
        /\ error_counter[SeriesKey(r1, 400)] = 1
        /\ pc[r2] = "done" /\ result[r2] = ResponseOf(200, "payload")
        /\ SeriesKey(r2, 200) \notin DOMAIN error_counter

-----------------------------------------------------------------------------
(* C4 *)

\* the measured requests on endpoint e that are over
Over(e) == {r \in Tasks : pc[r] = "done" /\ endpoint[r] = e}

\* C4: whenever no request is in progress, for every endpoint all of whose
\* measured requests completed with a response: the request_count series of the
\* endpoint sum to the number N of those requests, its error_count series sum to
\* the number K of them with status >= 400, and its in-flight series are 0,
\* whatever the interleaving of the requests was.
C4_NoLostUpdate ==
    Quiescent =>
        \A e \in {endpoint[r] : r \in Tasks} :
            (Over(e) # {} /\ \A r \in Over(e) : result[r].kind = "response") =>
                /\ EndpointTotal(request_counter, e) = Cardinality(Over(e))
                /\ EndpointTotal(error_counter, e) =
                      Cardinality({r \in Over(e) : result[r].status_code >= 400})
                /\ \A k \in DOMAIN active_requests : k.endpoint = e => active_requests[k] = 0

\* every request went to the same endpoint, at least one was answered 400 and at
\* least one 200, all are over and the endpoint's request_count is their number
C4_Witness ==
    /\ \A r \in Tasks : pc[r] = "done" /\ result[r].kind = "response"
    /\ \A r \in Tasks : endpoint[r] = endpoint[1] /\ request[r].method = "GET"
    /\ \E r \in Tasks : result[r].status_code >= 400
    /\ \E r \in Tasks : result[r].status_code < 400
    /\ EndpointTotal(request_counter, endpoint[1]) = NumTasks

-----------------------------------------------------------------------------
(* C5 *)

\* C5: in every reachable state, under every interleaving of requests that
\* succeed, fail or are cancelled, every in_flight series is >= 0.
C5_GaugeNonNegative == \A k \in DOMAIN active_requests : active_requests[k] >= 0

\* a cancelled request and a failed or answered one are over, and the in-flight
\* series they were counted on are back at 0
C5_Witness ==
    \E r1, r2 \in Tasks :
        /\ pc[r1] = "done" /\ result[r1].kind = "cancelled"
        /\ pc[r2] = "done" /\ result[r2].kind \in {"fault", "response"}
        /\ GaugeKey(r1) \in DOMAIN active_requests /\ active_requests[GaugeKey(r1)] = 0
        /\ GaugeKey(r2) \in DOMAIN active_requests /\ active_requests[GaugeKey(r2)] = 0

-----------------------------------------------------------------------------
(* C6 *)

\* C6: when call_next raises an unhandled fault on a measured request, what
\* leaves the middleware is that same fault, not a response and not another
\* failure, and in the step in which it leaves the in-flight gauge of the request
\* has been decremented.
C6_FaultPropagates ==
    [][\A r \in Tasks :
          (EndsMeasured(r) /\ handler_out'[r].kind = "fault") =>
              /\ result'[r] = handler_out'[r]
              /\ BumpedBy(active_requests, active_requests', GaugeKey(r), -1)]_vars

\* a measured request whose handler raised ValueError is over: ValueError reached
\* the caller and the request's in-flight series is back at 0
C6_Witness ==
    \E r \in Tasks :
        /\ pc[r] = "done"
        /\ handler_out[r] = FaultOf("ValueError") /\ result[r] = FaultOf("ValueError")
        /\ GaugeKey(r) \in DOMAIN active_requests /\ active_requests[GaugeKey(r)] = 0

-----------------------------------------------------------------------------
(* C7 *)

\* C7: when call_next raises an unhandled fault on a measured request,
\* request_count, request_duration and error_count each gain exactly one
\* observation for that request under a 5xx status_code label.
C7_SyntheticErrorRecorded ==
    [][\A r \in Tasks :
          (EndsMeasured(r) /\ handler_out'[r].kind = "fault") =>
              \E status_code \in 500..599 :
                  LET k == SeriesKey(r, status_code)
                  IN  /\ BumpedBy(request_counter, request_counter', k, 1)
                      /\ BumpedBy(error_counter, error_counter', k, 1)
                      /\ k \in DOMAIN request_latency'
                      /\ Observations(request_latency'[k]) =
                            1 + (IF k \in DOMAIN request_latency
                                 THEN Observations(request_latency[k]) ELSE 0)]_vars

-----------------------------------------------------------------------------
(* C8 *)

\* the in-flight series of request r holds no more than the requests in the handler
Released(r) ==
    /\ GaugeKey(r) \in DOMAIN active_requests
    /\ active_requests[GaugeKey(r)] =
          Cardinality({q \in Tasks : InFlight(q) /\ GaugeKey(q) = GaugeKey(r)})

\* C8: a measured request cancelled while the middleware is suspended in
\* call_next is eventually over, with CancelledError passed on and its in-flight
\* series released; the step that ends it decrements that series exactly once;
\* once over it stays over, and whenever nothing is in progress afterwards its
\* series is at 0: no cancelled request leaves the gauge elevated.
C8_CancelledReleased ==
    /\ \A r \in Tasks :
          (InFlight(r) /\ handler_out[r] = Cancelled) ~>
              (pc[r] = "done" /\ result[r] = Cancelled /\ Released(r))
    /\ [][\A r \in Tasks :
             /\ (EndsMeasured(r) /\ handler_out[r] = Cancelled) =>
                   BumpedBy(active_requests, active_requests', GaugeKey(r), -1)
             /\ (pc[r] = "done" /\ result[r] = Cancelled) =>
                   (pc'[r] = "done" /\ (Quiescent' => active_requests'[GaugeKey(r)] = 0))]_vars

\* a measured request was cancelled in the handler and is over, nothing is in
\* progress and its in-flight series is at 0
C8_Witness ==
    \E r \in Tasks :
        /\ pc[r] = "done" /\ handler_out[r] = Cancelled /\ result[r] = Cancelled
        /\ Quiescent
        /\ GaugeKey(r) \in DOMAIN active_requests /\ active_requests[GaugeKey(r)] = 0

-----------------------------------------------------------------------------
(* C9 *)

\* C9: a failure raised by a metrics operation never reaches the client: a
\* request whose handler returned a response ends with that response.
C9_MetricsFaultContained ==
    \A r \in Tasks :
        (pc[r] \in {"done", "done_excluded"} /\ handler_out[r].kind = "response") =>
            result[r] = handler_out[r]

-----------------------------------------------------------------------------
(* C10 *)

\* C10 as stated: a request whose raw path is in the exemption set with value
\* true at admission takes the excluded branch and changes no instrument
C10_RawPathExempt ==
    [][\A r \in Tasks :
          /\ (Admits(r) /\ Get(excluded_paths, request'[r].path, FALSE)) =>
                (pc'[r] = "call_next_excluded" /\ UNCHANGED registry)
          /\ (Stepped(r) /\ pc[r] = "call_next_excluded") => UNCHANGED registry]_vars

\* C10, amended: a request whose normalized path is in the exemption set with
\* value true at admission (a default entry or one added through exclude_paths)
\* takes the excluded branch, and no step of it, from admission to the return of
\* the handler's outcome, changes the in-flight gauge, request_count,
\* request_duration or error_count.
C10_NormalizedPathExempt ==
    [][\A r \in Tasks :
          /\ (Admits(r) /\ Get(excluded_paths, _normalize_path(request'[r].path), FALSE)) =>
                (pc'[r] = "call_next_excluded" /\ UNCHANGED registry)
          /\ (Stepped(r) /\ pc[r] = "call_next_excluded") =>
                (UNCHANGED registry /\ pc'[r] \in {"call_next_excluded", "done_excluded"})]_vars

\* a request to a path added through exclude_paths and a request to the default
\* entry /metrics are over, both answered, and no instrument holds a series
C10_Witness ==
    \E r1, r2 \in Tasks :
        /\ pc[r1] = "done_excluded" /\ request[r1].path = ProductsPath
        /\ result[r1].kind = "response"
        /\ pc[r2] = "done_excluded" /\ request[r2].path = MetricsPath
        /\ result[r2].kind = "response"
        /\ ProductsPath \notin DOMAIN DefaultExcluded
        /\ DOMAIN request_counter = {} /\ DOMAIN request_latency = {}
        /\ DOMAIN error_counter = {} /\ DOMAIN active_requests = {}

-----------------------------------------------------------------------------
(* C11 *)

\* the endpoint labels that the series of the four instruments carry
EndpointLabels ==
    {k.endpoint : k \in DOMAIN request_counter \cup DOMAIN request_latency
                        \cup DOMAIN error_counter \cup DOMAIN active_requests}

\* path p is in the exemption set with value true
Exempt(p) == Get(excluded_paths, p, FALSE)

\* C11 as stated: in every reachable state no series of any instrument carries
\* an endpoint label that is currently in the exemption set
C11_NoExemptEndpointSeries == \A e \in EndpointLabels : ~Exempt(e)

\* C11, amended: a path that is in the exemption set while no series carries it
\* as endpoint label and no measured request to it is in the handler never gets a
\* series; so the default entries (/metrics, /health, ...) never appear in the
\* exposition output, and a path exempted through exclude_paths appears only with
\* the series of the requests that were admitted before it was exempted, which
\* are never removed.
C11_ExemptGetsNoSeries ==
    /\ [](\A e \in EndpointLabels : e \notin DOMAIN DefaultExcluded)
    /\ [][\A p \in DOMAIN excluded_paths :
             (Exempt(p) /\ p \notin EndpointLabels
                  /\ \A r \in Tasks : ~(InFlight(r) /\ endpoint[r] = p))
                 => p \notin EndpointLabels']_vars

\* a path was exempted through exclude_paths, a request to it and a scrape were
\* then answered, a request to another path was measured, and no series carries
\* the exempted path or /metrics
C11_Witness ==
    /\ Exempt(ProductsPath) /\ ProductsPath \notin EndpointLabels
    /\ MetricsPath \notin EndpointLabels
    /\ EndpointLabels # {}
    /\ \E r \in Tasks : pc[r] = "done_excluded" /\ request[r].path = ProductsPath

-----------------------------------------------------------------------------
(* C12 *)

\* request req is a scrape: GET /metrics
IsScrape(req) == req = [method |-> "GET", path |-> MetricsPath]

\* C12: every step of a scrape of GET /metrics (its admission, the answer of
\* expose_metrics_endpoint, its cancellation) leaves every series of the four
\* instruments unchanged, and the body a scrape returns is the exposition of the
\* instruments as they are before and after it; so a scrape that follows with no
\* other traffic in between returns the same values.
C12_ScrapeNotMeasured ==
    [][\A r \in Tasks :
          ((Admits(r) \/ Stepped(r)) /\ IsScrape(request'[r]))
              => /\ registry' = registry
                 /\ generate_latest' = generate_latest
                 /\ (result'[r].kind = "response"
                        => /\ result'[r].body = generate_latest
                           /\ result'[r].body = generate_latest')]_vars

\* a scrape was answered after a request was measured: its body holds the series
\* of that request and is what the next scrape would return
C12_Witness ==
    \E r \in Tasks :
        /\ IsScrape(request[r]) /\ pc[r] = "done_excluded"
        /\ result[r].kind = "response"
        /\ DOMAIN result[r].body.http_requests_total # {}
        /\ result[r].body = generate_latest

-----------------------------------------------------------------------------
(* C13 *)

\* the paths of a list
Listed(paths) == {paths[i] : i \in 1..Len(paths)}

\* C13: the exemption set starts as the defaults of middleware construction; no
\* step removes an entry or sets one to false, so an exempt path stays exempt; and
\* the only step that changes the set is exclude_paths, which adds exactly the
\* listed paths with value true.
C13_ExemptionSetOnlyGrows ==
    /\ excluded_paths = DefaultExcluded
    /\ [][/\ \A p \in DOMAIN excluded_paths :
                /\ p \in DOMAIN excluded_paths'
                /\ excluded_paths[p] => excluded_paths'[p]
          /\ excluded_paths' # excluded_paths
                => \E paths \in ExcludeLists :
                      /\ DOMAIN excluded_paths' = DOMAIN excluded_paths \cup Listed(paths)
                      /\ \A p \in Listed(paths) : excluded_paths'[p] = TRUE
                      /\ UNCHANGED <<registry, pc, result>>]_vars

\* exclude_paths was called, requests were handled after it, and the defaults and
\* the listed paths are all exempt
C13_Witness ==
    /\ \A p \in DOMAIN DefaultExcluded : Exempt(p)
    /\ \E paths \in ExcludeLists : \A p \in Listed(paths) : Exempt(p)
    /\ DOMAIN excluded_paths # DOMAIN DefaultExcluded
    /\ \E r \in Tasks : pc[r] = "done_excluded" /\ ~Get(DefaultExcluded, endpoint[r], FALSE)
    /\ \E r \in Tasks : pc[r] = "done"

-----------------------------------------------------------------------------
(* C14 *)

\* path matches route template tpl: a path parameter takes any non-empty segment
\* (the UUID annotation of the parameter is validated after routing)
Matches(path, tpl) ==
    /\ Len(path) = Len(tpl)
    /\ \A i \in 1..Len(tpl) :
          IF tpl[i] = PathParam THEN path[i] # <<>> ELSE path[i] = tpl[i]

MatchesRoute(path) == \E tpl \in RouteTemplates : Matches(path, tpl)

\* the one endpoint label of a route template
TemplateLabel(tpl) ==
    [i \in 1..Len(tpl) |-> IF tpl[i] = PathParam THEN <<":id">> ELSE tpl[i]]

\* C14 as stated: when every request so far went to a path of one of the routes,
\* the endpoint labels of all instruments are within the labels of the route
\* templates, one per template
C14_EndpointLabelsWithinTemplates ==
    (\A r \in Tasks : pc[r] # "new" => MatchesRoute(request[r].path))
        => EndpointLabels \subseteq {TemplateLabel(tpl) : tpl \in RouteTemplates}

-----------------------------------------------------------------------------
(* C15 *)

\* C15: for either normalizer of the repository and every path, the normalizer
\* applied to its own output yields that output: normalize(normalize(p)) =
\* normalize(p); /api/v1/products/<uuid> becomes /api/v1/products/:id and stays so
C15_NormalizeIdempotent ==
    \A r \in Tasks :
        /\ \A which \in Normalizers :
              pc[r] = Twice(which)
                  => endpoint[r] = ApplyNormalizer(which, request[r].path)
        /\ (pc[r] \in {"normalized", "renormalized"}
                /\ request[r].path \in {ProductPath(u) : u \in UUIDs})
              => endpoint[r] = ProductsPath \o << <<":id">> >>

\* a path of two identifiers was normalized twice by the normalizer of
\* metrics.py: both became ':id' and stayed so
C15_Witness ==
    \E r \in Tasks :
        /\ pc[r] = "renormalized"
        /\ request[r].path = << <<"U1">>, <<"U2">> >>
        /\ endpoint[r] = << <<":id">>, <<":id">> >>

-----------------------------------------------------------------------------
(* C16 *)

\* requests r1 and r2 were answered with the same status to the same method on
\* paths that differ in the identifier alone
SameRouteOtherId(r1, r2) ==
    /\ r1 # r2
    /\ pc[r1] = "done" /\ pc[r2] = "done"
    /\ result[r1].kind = "response" /\ result[r2].kind = "response"
    /\ request[r1].method = request[r2].method
    /\ result[r1].status_code = result[r2].status_code
    /\ \E u1, u2 \in UUIDs :
          /\ u1 # u2
          /\ request[r1].path = ProductPath(u1)
          /\ request[r2].path = ProductPath(u2)

\* C16: two measured requests with the same method and status code whose paths
\* differ only in the UUID of the route have one and the same label tuple, with
\* endpoint /api/v1/products/:id; the series of that tuple holds both counts and
\* both durations, and no series carries either raw path
C16_IdentifiersCollapse ==
    \A r1, r2 \in Tasks :
        SameRouteOtherId(r1, r2)
            => LET k == SeriesKey(r1, result[r1].status_code)
               IN  /\ k = SeriesKey(r2, result[r2].status_code)
                   /\ k.endpoint = ProductsPath \o << <<":id">> >>
                   /\ Value(request_counter, k) >= 2
                   /\ k \in DOMAIN request_latency
                   /\ Observations(request_latency[k]) >= 2
                   /\ \A e \in EndpointLabels :
                         e \notin {request[r1].path, request[r2].path}

\* two such requests were answered 200 and their one series counts 2
C16_Witness ==
    \E r1, r2 \in Tasks :
        /\ SameRouteOtherId(r1, r2)
        /\ result[r1].status_code = 200
        /\ request_counter[SeriesKey(r1, 200)] = 2
        /\ Observations(request_latency[SeriesKey(r1, 200)]) = 2

-----------------------------------------------------------------------------
(* C17 *)

\* segment seg is exactly one identifier
IsIdentifier(seg) == \E u \in UUIDs : seg = <<u>>

\* C17 as stated: the normalizer of metrics.py replaces exactly the segments that
\* are an identifier by ':id' and leaves every other segment as it is, in order;
\* the output has the segments of the input, each after its '/'
C17_WholeSegmentsOnly ==
    \A r \in Tasks :
        pc[r] = "normalized"
            => /\ Len(endpoint[r]) = Len(request[r].path)
               /\ Len(endpoint[r]) >= 1
               /\ \A i \in 1..Len(endpoint[r]) :
                     endpoint[r][i] = IF IsIdentifier(request[r].path[i])
                                      THEN <<":id">> ELSE request[r].path[i]

-----------------------------------------------------------------------------
(* C18 *)

\* C18: whenever the downstream handler produced a response for a request,
\* exempt or measured, dispatch returns that very response, status code and body,
\* whatever the instruments hold at that moment; a business route's answer is
\* the payload and status the handler chose
C18_Transparent ==
    [][\A r \in Tasks :
          ((EndsMeasured(r) \/ EndsExcluded(r)) /\ handler_out'[r].kind = "response")
              => /\ result'[r] = handler_out'[r]
                 /\ result'[r].status_code = handler_out'[r].status_code
                 /\ result'[r].body = handler_out'[r].body
                 /\ ~IsScrape(request[r])
                       => result'[r] \in {ResponseOf(s, "payload") : s \in Statuses}]_vars

\* a measured request was answered 400 and an exempt one 200 while the
\* instruments hold series, and both clients got the handler's response
C18_Witness ==
    /\ \E r \in Tasks :
          /\ pc[r] = "done" /\ handler_out[r].kind = "response"
          /\ handler_out[r].status_code = 400
          /\ result[r] = handler_out[r]
    /\ \E r \in Tasks :
          /\ pc[r] = "done_excluded" /\ ~IsScrape(request[r])
          /\ handler_out[r].kind = "response"
          /\ handler_out[r].status_code = 200
          /\ result[r] = handler_out[r]
    /\ DOMAIN error_counter # {}

-----------------------------------------------------------------------------
(* C19 *)

\* every series of metric exists in the next state
Kept(metric) == DOMAIN metric \subseteq DOMAIN metric'

\* C19: in every step (a request admitted or finished, a scrape, exclude_paths,
\* the clock) every series of every instrument stays, and the value of every
\* series of request_count and error_count does not decrease
C19_CountersMonotonicSeriesKept ==
    [][/\ Kept(request_counter) /\ Kept(request_latency)
       /\ Kept(error_counter) /\ Kept(active_requests)
       /\ \A k \in DOMAIN request_counter : request_counter'[k] >= request_counter[k]
       /\ \A k \in DOMAIN error_counter : error_counter'[k] >= error_counter[k]]_vars

\* a series counted two error responses, its in-flight series is back at zero
\* and still there, and exclude_paths was called
C19_Witness ==
    \E k \in DOMAIN request_counter :
        /\ request_counter[k] = 2
        /\ Value(error_counter, k) = 2
        /\ \E g \in DOMAIN active_requests :
              g.endpoint = k.endpoint /\ active_requests[g] = 0
        /\ DOMAIN excluded_paths # DOMAIN DefaultExcluded

-----------------------------------------------------------------------------
(* C20 *)

\* the measured requests that were answered and belong to label tuple k
Recorded(k) ==
    {r \in Tasks : /\ pc[r] = "done" /\ result[r].kind = "response"
                   /\ SeriesKey(r, result[r].status_code) = k}

\* C20: in every state and for every label tuple of request_duration, the
\* cumulative bucket counts of the exposition do not decrease from one upper
\* bound to the next, up to +Inf, and the +Inf bucket is the count of the series
\* and the number of observations recorded for the tuple
C20_CumulativeBuckets ==
    \A k \in DOMAIN request_latency :
        LET e == Exposed(request_latency[k])
        IN  /\ \A i \in 1..(NumBuckets - 1) : e.buckets[i] <= e.buckets[i + 1]
            /\ e.buckets[NumBuckets] = e.count
            /\ e.buckets[NumBuckets] = Cardinality(Recorded(k))
            /\ e.buckets[NumBuckets] = Value(request_counter, k)

\* one series holds an observation within the first bucket and one beyond the
\* last boundary: 1 up to the last finite bucket, 2 in +Inf
C20_Witness ==
    \E k \in DOMAIN request_latency :
        LET e == Exposed(request_latency[k])
        IN  /\ e.buckets[1] = 1
            /\ e.buckets[NumBuckets - 1] = 1
            /\ e.buckets[NumBuckets] = 2

-----------------------------------------------------------------------------
(* C21 *)

\* the label tuples of all series of the four instruments
AllSeries ==
    DOMAIN request_counter \cup DOMAIN request_latency
        \cup DOMAIN error_counter \cup DOMAIN active_requests

\* "my-a--dev": the label of APP_NAME "My A" and APP_ENV "Dev"
ExpectedServiceLabel == <<"m", "y", "-", "a", "-", "-", "d", "e", "v">>

\* C21: the service label is the lowercased name with hyphens for spaces, "--"
\* and the lowercased environment of the settings the middleware was built with;
\* it is the same in every state, whatever the configuration strings are changed
\* to, and every series of every instrument carries exactly that value
C21_ServiceLabelFixed ==
    /\ [](/\ service_name = ExpectedServiceLabel
          /\ \E cfg \in SettingsChoices : service_name = _format_service_name(cfg)
          /\ \A k \in AllSeries : k.service = service_name)
    /\ [][service_name' = service_name]_vars

\* the configuration strings were changed, so that the label formatted from them
\* now would differ, and requests were measured under the label of construction
C21_Witness ==
    /\ settings \in SettingsUpdates
    /\ _format_service_name(settings) # service_name
    /\ \E k \in DOMAIN request_counter : k.service = ExpectedServiceLabel
    /\ \E r \in Tasks : pc[r] = "call_next"

-----------------------------------------------------------------------------
(* C22 *)

\* C22: when a request is admitted, it is passed through unmeasured exactly when
\* its normalized path is in the exemption set with value true, whatever its raw
\* path; so raw paths with the same template get the same decision, and once the
\* template /api/v1/products/:id is exempt, every /api/v1/products/<uuid> is
C22_DecisionByNormalizedPath ==
    [][\A r \in Tasks :
          Admits(r)
              => /\ endpoint'[r] = _normalize_path(request'[r].path)
                 /\ (pc'[r] = "call_next_excluded") <=> Exempt(endpoint'[r])
                 /\ (pc'[r] = "call_next") <=> ~Exempt(endpoint'[r])
                 /\ \A p \in {req.path : req \in Requests} :
                       _normalize_path(p) = endpoint'[r]
                           => (IsExcluded(excluded_paths, p)
                                  <=> pc'[r] = "call_next_excluded")
                 /\ (Exempt(ProductTemplate)
                        /\ request'[r].path \in {ProductPath(u) : u \in UUIDs})
                       => pc'[r] = "call_next_excluded"]_vars

\* only the template was exempted, no raw product path, and requests to the
\* paths of two different products were both passed through unmeasured
C22_Witness ==
    /\ DOMAIN excluded_paths = DOMAIN DefaultExcluded \cup {ProductTemplate}
    /\ \E r1, r2 \in Tasks :
          /\ request[r1].path = ProductPath("U1")
          /\ request[r2].path = ProductPath("U2")
          /\ pc[r1] = "done_excluded" /\ pc[r2] = "call_next_excluded"
    /\ AllSeries = {}

-----------------------------------------------------------------------------
(* C23 *)

\* the number of observations of series k of the histogram
ObservedAt(h, k) == IF k \in DOMAIN h THEN Observations(h[k]) ELSE 0

\* request r was admitted as measured and its path has been exempted since
ExemptedInFlight(r) == pc[r] = "call_next" /\ Exempt(endpoint[r])

\* C23: a request whose path exclude_paths exempts while the request is in the
\* downstream handler stays a measured request: when it finishes, the gauge of
\* its labels goes down by exactly 1, and if it was answered, request_count and
\* request_duration gain 1 and error_count gains 1 for a status >= 400; in every
\* state each gauge series equals the number of requests in flight under it, so
\* it is never negative and is 0 when no request is in flight
C23_DecisionAtAdmission ==
    /\ [](\A k \in DOMAIN active_requests :
             /\ active_requests[k] >= 0
             /\ active_requests[k] =
                    Cardinality({r \in Tasks : InFlight(r) /\ GaugeKey(r) = k})
             /\ Quiescent => active_requests[k] = 0)
    /\ [][\A r \in Tasks :
             (ExemptedInFlight(r) /\ pc'[r] # pc[r])
                 => /\ EndsMeasured(r)
                    /\ BumpedBy(active_requests, active_requests', GaugeKey(r), -1)
                    /\ handler_out'[r].kind = "response"
                          => LET k == SeriesKey(r, handler_out'[r].status_code)
                             IN  /\ BumpedBy(request_counter, request_counter', k, 1)
                                 /\ ObservedAt(request_latency', k)
                                        = ObservedAt(request_latency, k) + 1
                                 /\ IF k.status_code >= 400
                                    THEN BumpedBy(error_counter, error_counter', k, 1)
                                    ELSE error_counter' = error_counter
                    /\ handler_out'[r].kind # "response"
                          => UNCHANGED <<request_counter, request_latency,
                                         error_counter>>]_vars

\* POST /api/v1/products was admitted as measured, exclude_paths then exempted
\* its path, and the request was answered 400 afterwards: it is counted as a
\* request and as an error, and its gauge is back at 0
C23_Witness ==
    \E r \in Tasks :
        /\ pc[r] = "done" /\ request[r].path = ProductsPath
        /\ Exempt(endpoint[r])
        /\ result[r].kind = "response" /\ result[r].status_code = 400
        /\ Value(error_counter, SeriesKey(r, 400)) = 1
        /\ active_requests[GaugeKey(r)] = 0

-----------------------------------------------------------------------------
(* C24 *)

\* C24: in every state and for every label tuple, error_count is at most
\* request_count; error_count has a series only for a status_code >= 400; and
\* for a status_code >= 400 the error_count series is there and equals
\* request_count
C24_ErrorsWithinRequests ==
    /\ \A k \in DOMAIN error_counter :
          /\ k.status_code >= 400
          /\ k \in DOMAIN request_counter
          /\ error_counter[k] <= request_counter[k]
    /\ \A k \in DOMAIN request_counter :
          /\ Value(error_counter, k) <= request_counter[k]
          /\ k.status_code >= 400
                => k \in DOMAIN error_counter /\ error_counter[k] = request_counter[k]
          /\ k.status_code < 400 => k \notin DOMAIN error_counter

\* one route was answered 400 once and 200 once: the 400 tuple has request_count
\* and error_count 1, the 200 tuple request_count 1 and no error_count series
C24_Witness ==
    \E k4, k2 \in DOMAIN request_counter :
        /\ k4.status_code = 400 /\ k2.status_code = 200
        /\ k4.endpoint = k2.endpoint /\ k4.method = k2.method
        /\ request_counter[k4] = 1 /\ request_counter[k2] = 1
        /\ k4 \in DOMAIN error_counter /\ error_counter[k4] = 1
        /\ k2 \notin DOMAIN error_counter

-----------------------------------------------------------------------------
(* C25 *)

\* the exposition body b is consistent: request_count and request_duration have
\* the same label tuples and, per tuple, as many observations as counts
Consistent(b) ==
    /\ DOMAIN b.http_requests_total = DOMAIN b.http_request_duration_seconds
    /\ \A k \in DOMAIN b.http_requests_total :
          b.http_request_duration_seconds[k].count = b.http_requests_total[k]

\* C25: request_count, request_duration, error_count and the gauge decrement of
\* an answered request change in one and the same step; so in every state, and
\* in every body a scrape returned, each label tuple has as many duration
\* observations as counts, every request counted is fully completed (not in
\* flight any more), and every request in flight is in the gauge and not counted
C25_RecordedTogether ==
    /\ [](/\ Consistent(generate_latest)
          /\ \A r \in Tasks :
                (IsScrape(request[r]) /\ result[r].kind = "response")
                    => Consistent(result[r].body)
          /\ \A k \in DOMAIN request_counter :
                request_counter[k] = Cardinality(Recorded(k))
          /\ \A r \in Tasks :
                InFlight(r) => /\ active_requests[GaugeKey(r)] >= 1
                               /\ \A k \in DOMAIN request_counter : r \notin Recorded(k))
    /\ [][(request_counter' # request_counter \/ request_latency' # request_latency
              \/ error_counter' # error_counter)
             => \E r \in Tasks :
                   /\ EndsMeasured(r) /\ handler_out'[r].kind = "response"
                   /\ request_counter' # request_counter
                   /\ request_latency' # request_latency
                   /\ handler_out'[r].status_code >= 400 => error_counter' # error_counter
                   /\ active_requests'[GaugeKey(r)] = active_requests[GaugeKey(r)] - 1]_vars

\* a scrape returned a body in which a request answered 400 is counted, observed
\* and counted as an error, with its gauge at 0, while that request is completed
C25_Witness ==
    \E s, r \in Tasks :
        /\ IsScrape(request[s]) /\ result[s].kind = "response"
        /\ pc[r] = "done" /\ result[r].kind = "response" /\ result[r].status_code = 400
        /\ LET b == result[s].body
               k == SeriesKey(r, 400)
           IN  /\ k \in DOMAIN b.http_requests_total
               /\ b.http_requests_total[k] = 1
               /\ b.http_request_duration_seconds[k].count = 1
               /\ b.http_errors_total[k] = 1
               /\ b.http_requests_active[GaugeKey(r)] = 0

====
